---------------------------- MODULE Spec2Model ----------------------------
(***************************************************************************)
(* Model of format_string_parser.py: the PEG grammar of datetime format    *)
(* templates, the parse (parsimonious Grammar.parse), the visitor that     *)
(* turns a parse tree into a regular expression, and the batch driver      *)
(* main().                                                                 *)
(*                                                                         *)
(* Text is modelled as a sequence of one-character strings, so that a      *)
(* template, a line and a regular expression are compared character by     *)
(* character.                                                              *)
(***************************************************************************)
EXTENDS Integers, Sequences, FiniteSets, TLC

VARIABLES fin, format_strings, idx, fout, stderr, pc, format_string, regex_result

vars == <<fin, format_strings, idx, fout, stderr, pc, format_string, regex_result>>

(***************************************************************************)
(* Text helpers                                                            *)
(***************************************************************************)
RECURSIVE Join(_)
\* ''.join(parts): the concatenation of a sequence of texts
Join(parts) ==
    IF parts = <<>> THEN <<>> ELSE Head(parts) \o Join(Tail(parts))

\* text.startswith(prefix, pos), pos counted from 0 as in Python
StartsWith(text, prefix, pos) ==
    /\ pos + Len(prefix) <= Len(text)
    /\ \A k \in 1..Len(prefix) : text[pos + k] = prefix[k]

\* the characters Python's str.strip() and the regex class \s take for whitespace
Whitespace == {" ", "\t", "\n"}

(***************************************************************************)
(* The grammar, as parsimonious builds it from the grammar text: one       *)
(* expression per rule.  A rule that only names another rule resolves to   *)
(* that rule's expression (kind "Ref").                                    *)
(***************************************************************************)
Sequence_(members) ==
    [kind |-> "Sequence", members |-> members, literal |-> <<>>, chars |-> {}, optional |-> FALSE]

OneOf(members) ==
    [kind |-> "OneOf", members |-> members, literal |-> <<>>, chars |-> {}, optional |-> FALSE]

Literal(text) ==
    [kind |-> "Literal", members |-> <<>>, literal |-> text, chars |-> {}, optional |-> FALSE]

\* a regex terminal over one character class: ~"[c]" (optional FALSE) or ~"[c]?"
Regex(chars, optional) ==
    [kind |-> "Regex", members |-> <<>>, literal |-> <<>>, chars |-> chars, optional |-> optional]

Ref(target) ==
    [kind |-> "Ref", members |-> <<target>>, literal |-> <<>>, chars |-> {}, optional |-> FALSE]

\* validDateTimeRule with a bare Z as a last alternative
validDateTimeRule_WithBareZ ==
    OneOf(<<"monthBasedDateTime", "dayBasedDateTime", "monthBasedDate",
            "dayBasedDate", "yearMonth", "year", "timeZ", "Z">>)

validDateTimeRule ==
    OneOf(<<"monthBasedDateTime", "dayBasedDateTime", "monthBasedDate",
            "dayBasedDate", "yearMonth", "year", "timeZ">>)

\* timeRule with its alternatives tried shortest first
timeRule_ShortestFirst ==
    OneOf(<<"timeNoMinutesNoOffset", "timeNoMinutesWithOffset", "timeNoSecondsNoOffset",
            "timeNoSecondsWithOffset", "timeNoOffset", "timeWithOffset">>)

timeRule ==
    OneOf(<<"timeWithOffset", "timeNoOffset", "timeNoSecondsWithOffset",
            "timeNoSecondsNoOffset", "timeNoMinutesWithOffset",
            "timeNoMinutesNoOffset">>)

\* secondsRule taking a fraction without whole seconds as well
secondsRule_AllowsBareFraction ==
    OneOf(<<"secondsWithFraction", "secondsWithOutFraction", "fractionalSeconds">>)

secondsRule ==
    OneOf(<<"secondsWithFraction", "secondsWithOutFraction">>)

offsetRule ==
    OneOf(<<"offsetHoursMinutes", "offsetHours">>)

TRule ==
    Regex({"T"} \cup Whitespace, TRUE)

\* dateDashRule taking a slash as well
dateDashRule_AcceptsSlash ==
    Regex({"-", "/"}, TRUE)

dateDashRule ==
    Regex({"-"}, TRUE)

grammar ==
    [ validDateTime |-> validDateTimeRule,
      monthBasedDateTime |-> Sequence_(<<"monthBasedDate", "T", "time", "Z">>),
      dayBasedDateTime |-> Sequence_(<<"dayBasedDate", "T", "time", "Z">>),
      monthBasedDate |-> Sequence_(<<"year", "dateDash", "month", "dateDash", "dayOfMonth">>),
      dayBasedDate |-> Sequence_(<<"year", "dateDash", "dayOfYear">>),
      timeNoMinutesNoOffset |-> Ref("hours"),
      timeNoMinutesWithOffset |-> Sequence_(<<"hours", "offset">>),
      timeNoSecondsNoOffset |-> Sequence_(<<"hours", "timeColon", "minutes">>),
      timeNoSecondsWithOffset |-> Sequence_(<<"hours", "timeColon", "minutes", "offset">>),
      timeNoOffset |-> Sequence_(<<"hours", "timeColon", "minutes", "timeColon", "seconds">>),
      timeWithOffset |->
          Sequence_(<<"hours", "timeColon", "minutes", "timeColon", "seconds", "offset">>),
      time |-> timeRule,
      timeZ |-> Sequence_(<<"time", "Z">>),
      year |-> Literal(<<"Y", "Y", "Y", "Y">>),
      month |-> Literal(<<"M", "M">>),
      yearMonth |-> Sequence_(<<"year", "dateDash", "month">>),
      dayOfMonth |-> Literal(<<"D", "D">>),
      dateDash |-> dateDashRule,
      timeColon |-> Regex({":"}, TRUE),
      T |-> TRule,
      hours |-> Literal(<<"h", "h">>),
      minutes |-> Literal(<<"m", "m">>),
      wholeSeconds |-> Literal(<<"s", "s">>),
      fractionalSeconds |-> Literal(<<".", "s", "s", "s">>),
      secondsWithFraction |-> Sequence_(<<"wholeSeconds", "fractionalSeconds">>),
      secondsWithOutFraction |-> Ref("wholeSeconds"),
      seconds |-> secondsRule,
      dayOfYear |-> Literal(<<"D", "D", "D">>),
      offsetOperator |-> Regex({"+", "-"}, FALSE),
      offset |-> offsetRule,
      offsetHours |-> Sequence_(<<"offsetOperator", "hours">>),
      offsetHoursMinutes |-> Sequence_(<<"offsetOperator", "hours", "timeColon", "minutes">>),
      Z |-> Regex({"Z"}, TRUE) ]

\* the first rule of the grammar text is the default rule
default_rule == "validDateTime"

(***************************************************************************)
(* The parse.  A node is the rule that matched, the span it matched and    *)
(* its child nodes; NoMatch stands for parsimonious's None.                *)
(***************************************************************************)
Node(name, start, end, children) ==
    [expr_name |-> name, start |-> start, end |-> end, children |-> children]

NoMatch == Node("", 0, -1, <<>>)

RECURSIVE match_core(_, _, _)
RECURSIVE MatchSequence(_, _, _, _, _, _)
RECURSIVE MatchOneOf(_, _, _, _, _)

\* Sequence._uncached_match: every member in turn, each from where the last ended
MatchSequence(name, members, k, text, start, children) ==
    IF k > Len(members)
    THEN Node(name, start,
              IF children = <<>> THEN start ELSE children[Len(children)].end,
              children)
    ELSE LET new_pos == IF children = <<>> THEN start ELSE children[Len(children)].end
             node == match_core(members[k], text, new_pos)
         IN  IF node = NoMatch
             THEN NoMatch
             ELSE MatchSequence(name, members, k + 1, text, start, Append(children, node))

\* OneOf._uncached_match: the first member that matches at pos wins
MatchOneOf(name, members, k, text, pos) ==
    IF k > Len(members)
    THEN NoMatch
    ELSE LET node == match_core(members[k], text, pos)
         IN  IF node = NoMatch
             THEN MatchOneOf(name, members, k + 1, text, pos)
             ELSE Node(name, pos, node.end, <<node>>)

\* Expression.match_core for the rule called name, at position pos (from 0)
match_core(name, text, pos) ==
    LET e == grammar[name]
    IN  CASE e.kind = "Literal" ->
                IF StartsWith(text, e.literal, pos)
                THEN Node(name, pos, pos + Len(e.literal), <<>>)
                ELSE NoMatch
          [] e.kind = "Regex" ->
                IF pos < Len(text) /\ text[pos + 1] \in e.chars
                THEN Node(name, pos, pos + 1, <<>>)
                ELSE IF e.optional THEN Node(name, pos, pos, <<>>) ELSE NoMatch
          [] e.kind = "Sequence" -> MatchSequence(name, e.members, 1, text, pos, <<>>)
          [] e.kind = "OneOf" -> MatchOneOf(name, e.members, 1, text, pos)
          [] e.kind = "Ref" -> match_core(e.members[1], text, pos)

\* parse without the check that the whole text was consumed (Grammar.match)
parse_AcceptsPrefix(text) ==
    LET node == match_core(default_rule, text, 0)
    IN  IF node = NoMatch
        THEN [error |-> "ParseError", tree |-> NoMatch]
        ELSE [error |-> "", tree |-> node]

\* Grammar.parse: match the default rule at 0; ParseError when it does not match,
\* IncompleteParseError when it matches and text is left over
parse(text) ==
    LET node == match_core(default_rule, text, 0)
    IN  IF node = NoMatch
        THEN [error |-> "ParseError", tree |-> NoMatch]
        ELSE IF node.end < Len(text)
             THEN [error |-> "IncompleteParseError", tree |-> NoMatch]
             ELSE [error |-> "", tree |-> node]

\* node.text: the slice of the full text that the node matched
NodeText(node, text) ==
    SubSeq(text, node.start + 1, node.end)

(***************************************************************************)
(* FormatStringFormatter: one visit_<rule> method per rule name.           *)
(***************************************************************************)
visit_year == <<"(", "\\", "d", "\\", "d", "\\", "d", "\\", "d", ")">>

\* visit_month with the leading zero optional
visit_month_OptionalZero ==
    <<"(", "0", "?", "[", "1", "-", "9", "]", "|", "1", "[", "0", "-", "2", "]", ")">>

visit_month ==
    <<"(", "0", "1", "|", "0", "2", "|", "0", "3", "|", "0", "4", "|", "0", "5", "|",
      "0", "6", "|", "0", "7", "|", "0", "8", "|", "0", "9", "|", "1", "0", "|",
      "1", "1", "|", "1", "2", ")">>

visit_dayOfMonth ==
    <<"(", "0", "[", "1", "-", "9", "]", "|", "[", "1", "-", "2", "]", "\\", "d", "|",
      "3", "0", "|", "3", "1", ")">>

\* visit_hours with the hour 24 left out
visit_hours_To23 ==
    <<"(", "[", "0", "-", "1", "]", "\\", "d", "|", "2", "[", "0", "-", "3", "]", ")">>

visit_hours ==
    <<"(", "[", "0", "-", "1", "]", "\\", "d", "|", "2", "[", "0", "-", "4", "]", ")">>

visit_minutes == <<"(", "[", "0", "-", "5", "]", "\\", "d", ")">>

visit_wholeSeconds == <<"(", "[", "0", "-", "5", "]", "\\", "d", ")">>

\* visit_fractionalSeconds taking any number of fraction digits
visit_fractionalSeconds_AnyDigits == <<"(", "\\", ".", "\\", "d", "+", ")">>

visit_fractionalSeconds == <<"(", "\\", ".", "\\", "d", "\\", "d", "\\", "d", ")">>

\* visit_dayOfYear narrowed to the days of a year, 001..366
visit_dayOfYear_To366 ==
    <<"(", "0", "0", "[", "1", "-", "9", "]", "|", "0", "[", "1", "-", "9", "]", "\\", "d", "|",
      "[", "1", "-", "2", "]", "\\", "d", "\\", "d", "|", "3", "[", "0", "-", "5", "]", "\\", "d", "|",
      "3", "6", "[", "0", "-", "6", "]", ")">>

visit_dayOfYear == <<"[", "0", "-", "3", "]", "\\", "d", "\\", "d">>

\* visit_dateDash deciding again that the dash is optional
visit_dateDash_Optional(node_text) == <<"-", "?">>

visit_dateDash(node_text) == node_text

\* visit_timeColon deciding again that a written colon is optional
visit_timeColon_Optional(node_text) ==
    IF node_text = <<>> THEN <<>> ELSE node_text \o <<"?">>

visit_timeColon(node_text) == node_text

\* visit_T writing every date-time marker as the letter T
visit_T_AlwaysT(node_text) == IF node_text = <<>> THEN <<>> ELSE <<"T">>

\* visit_T emitting the class of all markers for a written marker
visit_T_AnyMarker(node_text) ==
    IF node_text = <<>> THEN <<>> ELSE <<"[", "T", " ", "\t", "\n", "]">>

visit_T(node_text) == node_text

\* visit_Z emitting the marker as an optional character
visit_Z_Optional(node_text) ==
    IF node_text = <<>> THEN <<>> ELSE node_text \o <<"?">>

visit_Z(node_text) == node_text

\* visit_offsetOperator without the backslash
visit_offsetOperator_Unescaped(node_text) == node_text

\* visit_offsetOperator emitting a class of both signs
visit_offsetOperator_AnySign(node_text) == <<"[", "+", "-", "]">>

visit_offsetOperator(node_text) == <<"\\">> \o node_text

\* visit_validDateTime without the start anchor
visit_validDateTime_NoStartAnchor(visited_children) == Join(visited_children) \o <<"$">>

visit_validDateTime(visited_children) == <<"^">> \o Join(visited_children) \o <<"$">>

\* the joining methods leaving out the fragment of the last child
visit_join_DropsLast(visited_children) ==
    Join(SubSeq(visited_children, 1, Len(visited_children) - 1))

\* every other visit_<rule> method: ''.join(visited_children)
visit_join(visited_children) == Join(visited_children)

\* the methods of a FormatStringFormatter that lacks visit_yearMonth
VisitMethods_NoYearMonth ==
    {"validDateTime", "monthBasedDateTime", "dayBasedDateTime", "monthBasedDate",
     "dayBasedDate", "timeNoMinutesNoOffset", "timeNoMinutesWithOffset",
     "timeNoSecondsNoOffset", "timeNoSecondsWithOffset", "timeNoOffset",
     "timeWithOffset", "time", "timeZ", "year", "month", "dayOfMonth",
     "dateDash", "timeColon", "T", "hours", "minutes", "wholeSeconds",
     "fractionalSeconds", "secondsWithFraction", "secondsWithOutFraction", "seconds",
     "dayOfYear", "offsetOperator", "offset", "offsetHours", "offsetHoursMinutes", "Z"}

\* the rule names for which FormatStringFormatter defines visit_<name>
VisitMethods ==
    {"validDateTime", "monthBasedDateTime", "dayBasedDateTime", "monthBasedDate",
     "dayBasedDate", "timeNoMinutesNoOffset", "timeNoMinutesWithOffset",
     "timeNoSecondsNoOffset", "timeNoSecondsWithOffset", "timeNoOffset",
     "timeWithOffset", "time", "timeZ", "year", "month", "yearMonth", "dayOfMonth",
     "dateDash", "timeColon", "T", "hours", "minutes", "wholeSeconds",
     "fractionalSeconds", "secondsWithFraction", "secondsWithOutFraction", "seconds",
     "dayOfYear", "offsetOperator", "offset", "offsetHours", "offsetHoursMinutes", "Z"}

RECURSIVE visit(_, _)
\* NodeVisitor.visit: the children first, then the method named after the node's rule
visit(node, text) ==
    LET visited_children == [k \in 1..Len(node.children) |-> visit(node.children[k], text)]
        n == node.expr_name
    IN  CASE n = "validDateTime" -> visit_validDateTime(visited_children)
          [] n = "year" -> visit_year
          [] n = "month" -> visit_month
          [] n = "dayOfMonth" -> visit_dayOfMonth
          [] n = "dayOfYear" -> visit_dayOfYear
          [] n = "hours" -> visit_hours
          [] n = "minutes" -> visit_minutes
          [] n = "wholeSeconds" -> visit_wholeSeconds
          [] n = "fractionalSeconds" -> visit_fractionalSeconds
          [] n = "dateDash" -> visit_dateDash(NodeText(node, text))
          [] n = "timeColon" -> visit_timeColon(NodeText(node, text))
          [] n = "T" -> visit_T(NodeText(node, text))
          [] n = "Z" -> visit_Z(NodeText(node, text))
          [] n = "offsetOperator" -> visit_offsetOperator(NodeText(node, text))
          [] n \in VisitMethods -> visit_join(visited_children)

\* what a call returns or raises: error "" and the value, or the error's name
Returned(value) == [error |-> "", value |-> value]

Raised(error) == [error |-> error, value |-> <<>>]

NotCalled == [error |-> "not called", value |-> <<>>]

\* format_string_visitor(format_string): parse, then visit the tree
format_string_visitor(fs) ==
    LET p == parse(fs)
    IN  IF p.error # "" THEN Raised(p.error) ELSE Returned(visit(p.tree, fs))


(***************************************************************************)
(* Python text methods used by main()                                      *)
(***************************************************************************)
RECURSIVE LStrip(_)
LStrip(text) ==
    IF text # <<>> /\ Head(text) \in Whitespace THEN LStrip(Tail(text)) ELSE text

RECURSIVE RStrip(_)
RStrip(text) ==
    IF text # <<>> /\ text[Len(text)] \in Whitespace
    THEN RStrip(SubSeq(text, 1, Len(text) - 1))
    ELSE text

\* line.strip(): leading and trailing whitespace removed
Strip(text) == RStrip(LStrip(text))

RECURSIVE Split(_, _)
\* text.split(sep): the fields between the separators, at least one field
Split(text, sep) ==
    IF \E k \in 1..Len(text) : text[k] = sep
    THEN LET k == CHOOSE j \in 1..Len(text) :
                      text[j] = sep /\ \A m \in 1..(j - 1) : text[m] # sep
         IN  <<SubSeq(text, 1, k - 1)>> \o Split(SubSeq(text, k + 1, Len(text)), sep)
    ELSE <<text>>

(***************************************************************************)
(* Templates and input lines                                               *)
(***************************************************************************)
YYYY == <<"Y", "Y", "Y", "Y">>
MM == <<"M", "M">>
DD == <<"D", "D">>
DDD == <<"D", "D", "D">>
hh == <<"h", "h">>
mm == <<"m", "m">>
ss == <<"s", "s">>
sss == <<".", "s", "s", "s">>
NL == <<"\n">>

\* the longest batch of input lines
MaxLines == 3

\* the longest template built freely from tokens
MaxTokens == 3

Dashes == {<<>>, <<"-">>}
Colons == {<<>>, <<":">>}

\* date parts: none, the shapes of the grammar, and near misses
DateParts ==
    {<<>>, YYYY}
    \cup {YYYY \o a \o MM : a \in Dashes}
    \cup {YYYY \o a \o MM \o b \o DD : a \in Dashes, b \in Dashes}
    \cup {YYYY \o a \o DDD : a \in Dashes}
    \cup {<<"Y", "Y">>, YYYY \o <<"/">> \o MM \o <<"/">> \o DD,
          YYYY \o <<"-">> \o MM \o <<"/">> \o DD, MM \o <<"-">> \o DD,
          YYYY \o <<"-", "-">> \o MM, YYYY \o MM \o DDD \o <<"D">>}

MarkerParts == {<<>>, <<"T">>, <<" ">>, <<"t">>}

TimeParts ==
    {<<>>, hh}
    \cup {hh \o a \o mm : a \in Colons}
    \cup {hh \o a \o mm \o b \o ss : a \in Colons, b \in Colons}
    \cup {hh \o a \o mm \o b \o ss \o sss : a \in Colons, b \in Colons}
    \cup {hh \o <<":">> \o ss, hh \o <<":">> \o mm \o sss, mm,
          hh \o <<":", ":">> \o mm, hh \o <<":">> \o mm \o <<":">> \o ss \o <<".", "s", "s">>,
          hh \o <<"-">> \o mm}

OffsetParts ==
    {<<>>}
    \cup {<<s>> \o hh : s \in {"+", "-"}}
    \cup {<<s>> \o hh \o a \o mm : s \in {"+", "-"}, a \in Colons}
    \cup {<<"+">>, <<"+">> \o mm, <<"+">> \o hh \o <<":">>,
          <<"+">> \o hh \o <<":">> \o mm \o <<":">> \o ss}

ZParts == {<<>>, <<"Z">>, <<"X">>}

StructuredTemplates ==
    {d \o t \o tm \o o \o z :
        d \in DateParts, t \in MarkerParts, tm \in TimeParts, o \in OffsetParts, z \in ZParts}

Tokens ==
    {YYYY, MM, DD, DDD, hh, mm, ss, sss, <<"Y", "Y">>, <<"-">>, <<":">>, <<"T">>,
     <<"Z">>, <<"+">>, <<"/">>}

RECURSIVE TokenTemplates(_)
\* the templates of at most n tokens
TokenTemplates(n) ==
    IF n = 0 THEN {<<>>}
    ELSE LET shorter == TokenTemplates(n - 1)
         IN  shorter \cup {s \o t : s \in shorter, t \in Tokens}

Templates == StructuredTemplates \cup TokenTemplates(MaxTokens)

\* input lines as fin.readlines() yields them, each with its line end
Lines ==
    { YYYY \o NL,
      YYYY \o <<",", "a", ",", "b">> \o NL,
      hh \o <<"Z", ",", "a">> \o NL,
      <<"Y", "Y", ",", "a">> \o NL,
      YYYY \o <<"/">> \o MM \o NL,
      NL,
      <<",", "a">> \o NL,
      <<" ">> \o YYYY \o <<",", "a", " ">> \o NL,
      YYYY \o <<" ", ",", "a">> \o NL,
      YYYY \o <<" ">> \o NL }

RECURSIVE Batches(_)
\* the batches of at most n lines
Batches(n) ==
    IF n = 0 THEN {<<>>}
    ELSE LET shorter == Batches(n - 1)
         IN  shorter \cup {Append(b, l) : b \in shorter, l \in Lines}

(***************************************************************************)
(* main(): the batch driver.  stderr is the stream the logger and an       *)
(* uncaught exception's traceback are written to; fout is the output       *)
(* stream.                                                                 *)
(***************************************************************************)
LogRecord(level, message, arg) == [level |-> level, message |-> message, arg |-> arg]

Init ==
    /\ fin \in Batches(MaxLines)
    /\ format_strings = <<>>
    /\ idx = 0
    /\ fout = <<>>
    /\ stderr = <<>>
    /\ pc = "start"
    /\ format_string = <<>>
    /\ regex_result = NotCalled

\* the input read one line at a time: only the first line is taken
Readlines_FirstLineOnly ==
    /\ pc = "start"
    /\ format_strings' = (IF fin = <<>> THEN <<>> ELSE <<Head(fin)>>)
    /\ fin' = (IF fin = <<>> THEN <<>> ELSE Tail(fin))
    /\ pc' = "loop"
    /\ UNCHANGED <<idx, fout, stderr, format_string, regex_result>>

\* format_strings = fin.readlines()
Readlines ==
    /\ pc = "start"
    /\ format_strings' = fin
    /\ fin' = <<>>
    /\ pc' = "loop"
    /\ UNCHANGED <<idx, fout, stderr, format_string, regex_result>>

\* fout.write putting the text before what the stream holds
fout_write_AtStart(stream, text) == <<text>> \o stream

\* fout.write(text): the text goes after what the stream already holds
fout_write(stream, text) == Append(stream, text)

\* the output line with the regex put before the line
output_line_RegexFirst(stripped_line, regex) == regex \o <<",">> \o stripped_line \o NL

\* "%s,%s\n" % (stripped_line, regex_result)
output_line(stripped_line, regex) == stripped_line \o <<",">> \o regex \o NL

\* stripped_line.split(',')[0]
line_format_string(line) == Split(Strip(line), ",")[1]

\* the loop body with the exception caught: the failure is written to fout
\* and the loop goes on
LoopBody_WritesFailure ==
    /\ pc = "loop"
    /\ idx < Len(format_strings)
    /\ LET line == format_strings[idx + 1]
           stripped_line == Strip(line)
           fs == Split(stripped_line, ",")[1]
           r == format_string_visitor(fs)
       IN  /\ format_string' = fs
           /\ regex_result' = r
           /\ fout' = Append(fout, stripped_line \o <<",">> \o r.value \o NL)
           /\ stderr' = Append(stderr, LogRecord("INFO", "Parsing", fs))
           /\ idx' = idx + 1
           /\ pc' = "loop"
    /\ UNCHANGED <<fin, format_strings>>

\* the loop body with the result of the first call kept for the later lines
LoopBody_KeepsFirstResult ==
    /\ pc = "loop"
    /\ idx < Len(format_strings)
    /\ LET line == format_strings[idx + 1]
           stripped_line == Strip(line)
           fs == line_format_string(line)
           r == IF regex_result = NotCalled THEN format_string_visitor(fs) ELSE regex_result
           parsing == LogRecord("INFO", "Parsing", fs)
       IN  /\ format_string' = fs
           /\ regex_result' = r
           /\ IF r.error = ""
              THEN /\ fout' = fout_write(fout, output_line(stripped_line, r.value))
                   /\ stderr' = Append(stderr, parsing)
                   /\ idx' = idx + 1
                   /\ pc' = "loop"
              ELSE /\ fout' = fout
                   /\ stderr' = stderr \o <<parsing, LogRecord("Traceback", r.error, fs)>>
                   /\ idx' = idx
                   /\ pc' = "raised"
    /\ UNCHANGED <<fin, format_strings>>

\* the loop body with the exception caught and logged: the loop goes on with
\* the next line
LoopBody_SkipsFailure ==
    /\ pc = "loop"
    /\ idx < Len(format_strings)
    /\ LET line == format_strings[idx + 1]
           stripped_line == Strip(line)
           fs == line_format_string(line)
           r == format_string_visitor(fs)
           parsing == LogRecord("INFO", "Parsing", fs)
       IN  /\ format_string' = fs
           /\ regex_result' = r
           /\ IF r.error = ""
              THEN /\ fout' = fout_write(fout, output_line(stripped_line, r.value))
                   /\ stderr' = Append(stderr, parsing)
              ELSE /\ fout' = fout
                   /\ stderr' = stderr \o <<parsing, LogRecord("ERROR", r.error, fs)>>
           /\ idx' = idx + 1
           /\ pc' = "loop"
    /\ UNCHANGED <<fin, format_strings>>

\* one pass of the for loop over format_strings; an exception raised by
\* format_string_visitor is not caught and ends main()
LoopBody ==
    /\ pc = "loop"
    /\ idx < Len(format_strings)
    /\ LET line == format_strings[idx + 1]
           stripped_line == Strip(line)
           fs == line_format_string(line)
           r == format_string_visitor(fs)
           parsing == LogRecord("INFO", "Parsing", fs)
       IN  /\ format_string' = fs
           /\ regex_result' = r
           /\ IF r.error = ""
              THEN /\ fout' = fout_write(fout, output_line(stripped_line, r.value))
                   /\ stderr' = Append(stderr, parsing)
                   /\ idx' = idx + 1
                   /\ pc' = "loop"
              ELSE /\ fout' = fout
                   /\ stderr' = stderr \o <<parsing, LogRecord("Traceback", r.error, fs)>>
                   /\ idx' = idx
                   /\ pc' = "raised"
    /\ UNCHANGED <<fin, format_strings>>

\* the end of the loop looked for one line past the last
Finish_PastTheEnd ==
    /\ pc = "loop"
    /\ idx > Len(format_strings)
    /\ stderr' = Append(stderr, LogRecord("INFO", "Finished program", <<>>))
    /\ pc' = "done"
    /\ UNCHANGED <<fin, format_strings, idx, fout, format_string, regex_result>>

\* after the loop: logger.info("Finished program")
Finish ==
    /\ pc = "loop"
    /\ idx = Len(format_strings)
    /\ stderr' = Append(stderr, LogRecord("INFO", "Finished program", <<>>))
    /\ pc' = "done"
    /\ UNCHANGED <<fin, format_strings, idx, fout, format_string, regex_result>>

Next == Readlines \/ LoopBody \/ Finish

Spec == Init /\ [][Next]_vars

(***************************************************************************)
(* format_string_visitor on its own: one call on one template              *)
(***************************************************************************)
InitVisitor ==
    /\ fin = <<>>
    /\ format_strings = <<>>
    /\ idx = 0
    /\ fout = <<>>
    /\ stderr = <<>>
    /\ pc = "call"
    /\ format_string \in Templates
    /\ regex_result = NotCalled

CallVisitor ==
    /\ pc = "call"
    /\ regex_result' = format_string_visitor(format_string)
    /\ pc' = IF regex_result'.error = "" THEN "returned" ELSE "raised"
    /\ UNCHANGED <<fin, format_strings, idx, fout, stderr, format_string>>

NextVisitor == CallVisitor

SpecVisitor == InitVisitor /\ [][NextVisitor]_vars


(***************************************************************************)
(* What the properties are stated with.                                    *)
(*                                                                         *)
(* Matches(re, s): the regular expression re, read as a regex engine reads *)
(* it, matches the whole subject s.  The expression is read from its text: *)
(* alternation |, groups ( ), classes [a-b...], \d, an escaped character,  *)
(* the anchors ^ (start of the subject) and $ (end of the subject), the    *)
(* wildcard . and the postfix operators ? * +.  Every operator works on    *)
(* the set of subject positions reached so far.                            *)
(***************************************************************************)
Digits == <<"0", "1", "2", "3", "4", "5", "6", "7", "8", "9">>

DigitSet == {Digits[k] : k \in 1..Len(Digits)}

DigitIndex(c) == CHOOSE k \in 1..Len(Digits) : Digits[k] = c

\* the characters of the class range a-b
ClassRange(a, b) ==
    IF a \in DigitSet /\ b \in DigitSet
    THEN {Digits[k] : k \in DigitIndex(a)..DigitIndex(b)}
    ELSE {a, b}

\* the positions after one character of the set cs, from the positions P
Step(s, P, cs) == {p + 1 : p \in {q \in P : q < Len(s) /\ s[q + 1] \in cs}}

\* the positions after any one character
StepAny(s, P) == {p + 1 : p \in {q \in P : q < Len(s)}}

RECURSIVE ReClass(_, _, _)
\* a class body from index i up to its "]": [next: the index after "]", chars]
ReClass(re, i, acc) ==
    IF i > Len(re) THEN [next |-> i, chars |-> acc]
    ELSE IF re[i] = "]" THEN [next |-> i + 1, chars |-> acc]
    ELSE IF re[i] = "\\" /\ i < Len(re)
         THEN ReClass(re, i + 2, acc \cup (IF re[i + 1] = "d" THEN DigitSet ELSE {re[i + 1]}))
    ELSE IF i + 2 <= Len(re) /\ re[i + 1] = "-" /\ re[i + 2] # "]"
         THEN ReClass(re, i + 3, acc \cup ClassRange(re[i], re[i + 2]))
    ELSE ReClass(re, i + 1, acc \cup {re[i]})

RECURSIVE ReAlt(_, _, _, _)
RECURSIVE ReConcat(_, _, _, _)
RECURSIVE ReAtom(_, _, _, _)
RECURSIVE ReStar(_, _, _, _, _)

\* one atom at index i: [next: the index after the atom, ends: the positions after it]
ReAtom(re, i, s, P) ==
    LET c == re[i]
    IN  CASE c = "(" ->
                LET r == ReAlt(re, i + 1, s, P)
                IN  [next |-> r.next + 1, ends |-> r.ends]
          [] c = "[" ->
                LET r == ReClass(re, i + 1, {})
                IN  [next |-> r.next, ends |-> Step(s, P, r.chars)]
          [] c = "\\" /\ i < Len(re) ->
                [next |-> i + 2,
                 ends |-> Step(s, P, IF re[i + 1] = "d" THEN DigitSet ELSE {re[i + 1]})]
          [] c = "^" -> [next |-> i + 1, ends |-> P \cap {0}]
          [] c = "$" -> [next |-> i + 1, ends |-> P \cap {Len(s)}]
          [] c = "." -> [next |-> i + 1, ends |-> StepAny(s, P)]
          [] OTHER -> [next |-> i + 1, ends |-> Step(s, P, {c})]

\* zero or more repetitions of the atom at index i: every position reached
ReStar(re, i, s, P, acc) ==
    LET new == ReAtom(re, i, s, P).ends \ acc
    IN  IF new = {} THEN acc ELSE ReStar(re, i, s, new, acc \cup new)

\* the atoms and their postfix operators up to the next "|" or ")" or the end
ReConcat(re, i, s, P) ==
    IF i > Len(re) \/ re[i] \in {"|", ")"}
    THEN [next |-> i, ends |-> P]
    ELSE LET a == ReAtom(re, i, s, P)
             q == IF a.next <= Len(re) THEN re[a.next] ELSE ""
         IN  CASE q = "?" -> ReConcat(re, a.next + 1, s, a.ends \cup P)
               [] q = "*" -> ReConcat(re, a.next + 1, s, ReStar(re, i, s, P, P))
               [] q = "+" -> ReConcat(re, a.next + 1, s, ReStar(re, i, s, a.ends, a.ends))
               [] OTHER -> ReConcat(re, a.next, s, a.ends)

\* the alternatives from index i up to the closing ")" or the end
ReAlt(re, i, s, P) ==
    LET r == ReConcat(re, i, s, P)
    IN  IF r.next <= Len(re) /\ re[r.next] = "|"
        THEN LET r2 == ReAlt(re, r.next + 1, s, P)
             IN  [next |-> r2.next, ends |-> r.ends \cup r2.ends]
        ELSE r

\* re matches s from its first character through its last
Matches(re, s) == Len(s) \in ReAlt(re, 1, s, {0}).ends

\* re matches s somewhere: an engine's search, which the anchors must restrict
Searches(re, s) == ReAlt(re, 1, s, 0..Len(s)).ends # {}


(***************************************************************************)
(* The language of a rule: Ends(name, text, P) is every position at which  *)
(* some derivation of the rule can end when it starts at a position of P.  *)
(* A choice may take any alternative and an optional terminal may or may   *)
(* not take its character, whatever the parser would have tried first.     *)
(***************************************************************************)
RECURSIVE Ends(_, _, _)
RECURSIVE EndsSequence(_, _, _, _)

EndsSequence(members, k, text, P) ==
    IF k > Len(members) \/ P = {}
    THEN P
    ELSE EndsSequence(members, k + 1, text, Ends(members[k], text, P))

Ends(name, text, P) ==
    LET e == grammar[name]
    IN  CASE e.kind = "Literal" ->
                {p + Len(e.literal) : p \in {q \in P : StartsWith(text, e.literal, q)}}
          [] e.kind = "Regex" ->
                Step(text, P, e.chars) \cup (IF e.optional THEN P ELSE {})
          [] e.kind = "Sequence" -> EndsSequence(e.members, 1, text, P)
          [] e.kind = "OneOf" ->
                UNION {Ends(e.members[k], text, P) : k \in 1..Len(e.members)}
          [] e.kind = "Ref" -> Ends(e.members[1], text, P)

\* the rule can derive the whole text
Derives(name, text) == Len(text) \in Ends(name, text, {0})

\* the alternatives of validDateTime, by position, that derive the whole text
WholeAlternatives(text) ==
    {k \in 1..Len(grammar[default_rule].members) :
        Derives(grammar[default_rule].members[k], text)}

Min(S) == CHOOSE k \in S : \A j \in S : k <= j

(***************************************************************************)
(* Literal instances of a template: every placeholder replaced by digits,  *)
(* every other character kept.                                             *)
(***************************************************************************)
Fills ==
    { [year |-> <<"2", "0", "2", "1">>, month |-> <<"0", "6">>, day |-> <<"1", "5">>,
       doy |-> <<"1", "6", "6">>, hours |-> <<"1", "4">>, minutes |-> <<"3", "0">>,
       seconds |-> <<"0", "0">>, fraction |-> <<".", "5", "0", "0">>],
      [year |-> <<"0", "0", "0", "0">>, month |-> <<"1", "2">>, day |-> <<"3", "1">>,
       doy |-> <<"3", "9", "9">>, hours |-> <<"2", "4">>, minutes |-> <<"5", "9">>,
       seconds |-> <<"5", "9">>, fraction |-> <<".", "9", "9", "9">>] }

RECURSIVE Instance(_, _)
Instance(t, f) ==
    LET rest(n) == Instance(SubSeq(t, n + 1, Len(t)), f)
    IN  CASE t = <<>> -> <<>>
          [] StartsWith(t, YYYY, 0) -> f.year \o rest(4)
          [] StartsWith(t, MM, 0) -> f.month \o rest(2)
          [] StartsWith(t, DDD, 0) -> f.doy \o rest(3)
          [] StartsWith(t, DD, 0) -> f.day \o rest(2)
          [] StartsWith(t, hh, 0) -> f.hours \o rest(2)
          [] StartsWith(t, mm, 0) -> f.minutes \o rest(2)
          [] StartsWith(t, sss, 0) -> f.fraction \o rest(4)
          [] StartsWith(t, ss, 0) -> f.seconds \o rest(2)
          [] OTHER -> <<Head(t)>> \o rest(1)

\* characters tried before and after an instance
ExtraChars == {"0", "Z", "\n"}

(***************************************************************************)
(* The vocabulary of templates: the characters of the terminals, and the   *)
(* lengths a run of one placeholder letter has in a terminal.              *)
(***************************************************************************)
VocabularyChars ==
    {"Y", "M", "D", "h", "m", "s", ".", "-", ":", "T", "Z", "+"} \cup Whitespace

PlaceholderRuns ==
    [Y |-> {4}, M |-> {2}, D |-> {2, 3}, h |-> {2}, m |-> {2}, s |-> {2, 3}]

RECURSIVE RunLength(_, _)
\* how many times the character at k is repeated from k on
RunLength(text, k) ==
    IF k < Len(text) /\ text[k + 1] = text[k] THEN 1 + RunLength(text, k + 1) ELSE 1

OutsideVocabulary(text) ==
    \/ \E k \in 1..Len(text) : text[k] \notin VocabularyChars
    \/ \E k \in 1..Len(text) :
          /\ text[k] \in DOMAIN PlaceholderRuns
          /\ k = 1 \/ text[k - 1] # text[k]
          /\ RunLength(text, k) \notin PlaceholderRuns[text[k]]

(***************************************************************************)
(* The batch, as the properties read it                                    *)
(***************************************************************************)
\* a line without its line end
LineBody(line) ==
    IF line # <<>> /\ line[Len(line)] = "\n" THEN SubSeq(line, 1, Len(line) - 1) ELSE line

FirstField(line) == Split(LineBody(line), ",")[1]

TrailingFields(line) == Tail(Split(LineBody(line), ","))

\* what format_string_visitor makes of the token main() takes from the line
LineResult(line) == format_string_visitor(line_format_string(line))

\* the lines the loop has taken up so far, the one that raised included
Attempted == 1..(idx + (IF pc = "raised" THEN 1 ELSE 0))

RECURSIVE ExpectedOutputs(_)
\* the output lines of the lines that parse, in input order
ExpectedOutputs(lines) ==
    IF lines = <<>> THEN <<>>
    ELSE LET r == LineResult(Head(lines))
         IN  (IF r.error = "" THEN <<output_line(Strip(Head(lines)), r.value)>> ELSE <<>>)
             \o ExpectedOutputs(Tail(lines))

RECURSIVE IsSubsequence(_, _)
\* a is b with some elements left out, order kept
IsSubsequence(a, b) ==
    IF a = <<>> THEN TRUE
    ELSE IF b = <<>> THEN FALSE
    ELSE IF Head(a) = Head(b) THEN IsSubsequence(Tail(a), Tail(b))
    ELSE IsSubsequence(a, Tail(b))


(***************************************************************************)
(* Properties of the batch driver (specification Spec)                     *)
(***************************************************************************)

\* C1: when a line's template fails to parse the driver goes on to the next
\* line, so once the run has ended every line whose template parses has its
\* output line in the output stream.
C1_FailureSkipsOnlyThatLine ==
    pc \in {"done", "raised"} =>
        \A k \in 1..Len(format_strings) :
            LET r == LineResult(format_strings[k])
            IN  r.error = "" =>
                    \E j \in 1..Len(fout) :
                        fout[j] = output_line(Strip(format_strings[k]), r.value)

\* C2: nothing is written to the output stream for a line whose template
\* fails to parse: the output stream holds one line,regex record for each
\* line that parsed and nothing else, and the failure's diagnostic is on
\* stderr, the stream of the log, not in the output stream.
C2_OutputOnlyForParsedLines ==
    /\ Len(fout) = Cardinality({k \in Attempted : LineResult(format_strings[k]).error = ""})
    /\ \A j \in 1..Len(fout) :
          /\ j <= Len(format_strings)
          /\ LET r == LineResult(format_strings[j])
                 n == Len(r.value) + 2
             IN  /\ r.error = ""
                 /\ Len(fout[j]) >= n
                 /\ SubSeq(fout[j], Len(fout[j]) - n + 1, Len(fout[j]))
                        = <<",">> \o r.value \o NL
    /\ pc = "raised" =>
          /\ LineResult(format_strings[idx + 1]).error # ""
          /\ stderr # <<>>
          /\ stderr[Len(stderr)].level = "Traceback"
          /\ stderr[Len(stderr)].message = LineResult(format_strings[idx + 1]).error

\* C2 witness: a line failed after another line had been written
C2_Witness ==
    /\ pc = "raised"
    /\ Len(fout) >= 1
    /\ stderr[Len(stderr)].level = "Traceback"

\* C3: the output lines are in the order of the input lines they come from
\* and no input line has more than one output line: the output stream is a
\* subsequence of the output lines of the parsing input lines in input order.
C3_OutputInInputOrder ==
    IsSubsequence(fout, ExpectedOutputs(format_strings))

\* C3 witness: two different output lines have been written
C3_Witness ==
    /\ Len(fout) >= 2
    /\ fout[1] # fout[2]

\* C4: the output line of a parsed line is the input line verbatim, then one
\* comma, then the derived regex.
C4_LineVerbatim ==
    \A j \in 1..Len(fout) :
        fout[j] = LineBody(format_strings[j]) \o <<",">>
                     \o LineResult(format_strings[j]).value \o NL

\* C5: the template is the first comma-delimited field and decides the
\* result alone: lines with the same first field have the same regex or both
\* fail, whatever their trailing fields, and the trailing fields of a line
\* are echoed unchanged between its first field and the regex.
C5_FirstFieldDecides ==
    LET Outcome(k) ==
            IF k <= Len(fout)
            THEN LET fields == Split(LineBody(fout[k]), ",") IN fields[Len(fields)]
            ELSE <<"raised">>
    IN  /\ \A i \in Attempted, j \in Attempted :
              FirstField(format_strings[i]) = FirstField(format_strings[j])
                  => Outcome(i) = Outcome(j)
        /\ \A j \in 1..Len(fout) :
              LET fields == Split(LineBody(fout[j]), ",")
              IN  SubSeq(fields, 2, Len(fields) - 1) = TrailingFields(format_strings[j])

(***************************************************************************)
(* Properties of format_string_visitor (specification SpecVisitor)         *)
(***************************************************************************)

\* C6: the regex of an accepted template starts with ^, ends with $ and has
\* no anchor anywhere else, and it matches whole strings only: an instance
\* of the template is matched, and it is not matched with a character put
\* before it or after it.
C6_Anchored ==
    pc = "returned" =>
        LET re == regex_result.value
        IN  /\ Len(re) >= 2
            /\ re[1] = "^"
            /\ re[Len(re)] = "$"
            /\ \A k \in 2..(Len(re) - 1) : re[k] \notin {"^", "$"}
            /\ \A f \in Fills :
                  LET inst == Instance(format_string, f)
                  IN  /\ Searches(re, inst)
                      /\ \A c \in ExtraChars :
                            /\ ~Searches(re, <<c>> \o inst)
                            /\ ~Searches(re, inst \o <<c>>)

\* C6 witness: a date-time template has been translated
C6_Witness ==
    /\ pc = "returned"
    /\ format_string = YYYY \o <<"-">> \o MM \o <<"-">> \o DD \o <<"T">> \o hh \o <<":">> \o mm
    /\ Len(regex_result.value) > 2

\* C7: parsing is all or nothing: a regex is returned only if the grammar
\* derives the entire template, and when the top rule matches only a proper
\* prefix of the template the call raises and returns no regex.
C7_AllOrNothing ==
    pc # "call" =>
        LET node == match_core(default_rule, format_string, 0)
        IN  /\ pc = "returned" =>
                  /\ Derives(default_rule, format_string)
                  /\ node.end = Len(format_string)
            /\ (node # NoMatch /\ node.end < Len(format_string)) =>
                  /\ pc = "raised"
                  /\ regex_result = Raised("IncompleteParseError")

\* C7 witness: a rule matched a proper, non-empty prefix and the call raised
C7_Witness ==
    /\ pc = "raised"
    /\ regex_result.error = "IncompleteParseError"
    /\ match_core(default_rule, format_string, 0).end > 0
    /\ format_string = YYYY \o <<"/">> \o MM \o <<"/">> \o DD

\* C8: whenever some alternative of validDateTime derives the whole template
\* the parse succeeds, and with the leftmost such alternative; an earlier
\* alternative, or an earlier alternative of time, seconds or offset, that
\* matches a prefix does not make it fail.
C8_LeftmostWholeAlternative ==
    (pc # "call" /\ WholeAlternatives(format_string) # {}) =>
        /\ pc = "returned"
        /\ parse(format_string).tree.children[1].expr_name
               = grammar[default_rule].members[Min(WholeAlternatives(format_string))]

\* C8 witness: a template that a later alternative of time derives and of
\* which earlier alternatives of validDateTime match a prefix
C8_Witness ==
    /\ pc = "returned"
    /\ format_string = YYYY \o MM \o DD \o hh \o <<":">> \o mm \o <<"-">> \o hh
    /\ WholeAlternatives(format_string) = {1}

\* C9: a template with a character outside the vocabulary, or with a run of
\* a placeholder letter that no placeholder has (YY), never gets a regex.
C9_OutsideVocabularyFails ==
    (pc # "call" /\ OutsideVocabulary(format_string)) =>
        /\ pc = "raised"
        /\ regex_result.error \in {"ParseError", "IncompleteParseError"}
        /\ regex_result.value = <<>>

\* C9 witness: YYYY/MM/DD has been refused
C9_Witness ==
    /\ pc = "raised"
    /\ format_string = YYYY \o <<"/">> \o MM \o <<"/">> \o DD
    /\ OutsideVocabulary(format_string)

Scenario2Template ==
    YYYY \o MM \o DD \o <<"T">> \o hh \o <<":">> \o mm \o <<":">> \o ss \o <<"Z">>

Scenario2Instance ==
    <<"2", "0", "2", "1", "0", "6", "1", "5", "T", "1", "4", ":", "3", "0", ":", "0", "0">>

\* C10 as claimed: the regex of YYYYMMDDThh:mm:ssZ matches 20210615T14:30:00Z
\* and 20210615T14:30:00 and rejects 20210615T14:30:00X.
C10_TrailingZOptional ==
    (pc = "returned" /\ format_string = Scenario2Template) =>
        /\ Matches(regex_result.value, Scenario2Instance \o <<"Z">>)
        /\ Matches(regex_result.value, Scenario2Instance)
        /\ ~Matches(regex_result.value, Scenario2Instance \o <<"X">>)

\* C10 as amended: the regex of YYYYMMDDThh:mm:ssZ matches 20210615T14:30:00Z
\* and rejects 20210615T14:30:00X and also 20210615T14:30:00: the Z of the
\* template is required in the instance.
C10_TrailingZRequired ==
    (pc # "call" /\ format_string = Scenario2Template) =>
        /\ pc = "returned"
        /\ Matches(regex_result.value, Scenario2Instance \o <<"Z">>)
        /\ ~Matches(regex_result.value, Scenario2Instance)
        /\ ~Matches(regex_result.value, Scenario2Instance \o <<"X">>)

\* C10 witness: YYYYMMDDThh:mm:ssZ has been translated
C10_Witness ==
    /\ pc = "returned"
    /\ format_string = Scenario2Template
    /\ regex_result.error = ""


(***************************************************************************)
(* The terminals of a parse tree, and edits of a text at one position      *)
(***************************************************************************)
RECURSIVE Leaves(_)
\* the nodes without children, left to right
Leaves(node) ==
    IF node.children = <<>>
    THEN <<node>>
    ELSE Join([k \in 1..Len(node.children) |-> Leaves(node.children[k])])

\* the rules of the optional separators and markers, with the character of each
SeparatorChar == [dateDash |-> "-", timeColon |-> ":", T |-> "T", Z |-> "Z"]

SeparatorRules == DOMAIN SeparatorChar

\* s without its k-th character
RemoveAt(s, k) == SubSeq(s, 1, k - 1) \o SubSeq(s, k + 1, Len(s))

\* s with c put after its first k characters
InsertAt(s, k, c) == SubSeq(s, 1, k) \o <<c>> \o SubSeq(s, k + 1, Len(s))

\* s with its k-th character replaced by c
ReplaceAt(s, k, c) == SubSeq(s, 1, k - 1) \o <<c>> \o SubSeq(s, k + 1, Len(s))

\* s with the characters a+1..b replaced by the text t
ReplaceSpan(s, a, b, t) == SubSeq(s, 1, a) \o t \o SubSeq(s, b + 1, Len(s))

FillTypical == CHOOSE f \in Fills : f.year = <<"2", "0", "2", "1">>

FillExtreme == CHOOSE f \in Fills : f.year = <<"0", "0", "0", "0">>

(***************************************************************************)
(* Properties of the translation (specification SpecVisitor)               *)
(***************************************************************************)

\* C11: translation does not decide optionality again: at every separator
\* and marker position (date dash, time colon, T, Z) of an accepted template
\* the fragment is the text matched there, the character when it is present
\* and nothing when it is absent, so the regex requires the separator exactly
\* where the template has it: the instance of the template is matched, it is
\* not matched with a present separator left out nor with an absent one put
\* in; the regex of YYYYMMDD rejects 2021-06-15 and the regex of YYYY-MM-DD
\* rejects 20210615.
C11_SeparatorsAsInTemplate ==
    pc = "returned" =>
        LET re == regex_result.value
            inst == Instance(format_string, FillTypical)
            leaves == Leaves(parse(format_string).tree)
        IN  /\ Matches(re, inst)
            /\ \A i \in 1..Len(leaves) :
                  LET n == leaves[i]
                  IN  n.expr_name \in SeparatorRules =>
                          /\ visit(n, format_string) = NodeText(n, format_string)
                          /\ IF n.end > n.start
                             THEN ~Matches(re, RemoveAt(inst, n.end))
                             ELSE ~Matches(re, InsertAt(inst, n.start, SeparatorChar[n.expr_name]))
            /\ format_string = YYYY \o MM \o DD =>
                  ~Matches(re, <<"2", "0", "2", "1", "-", "0", "6", "-", "1", "5">>)
            /\ format_string = YYYY \o <<"-">> \o MM \o <<"-">> \o DD =>
                  ~Matches(re, <<"2", "0", "2", "1", "0", "6", "1", "5">>)

\* C11 witness: a template with one dash present and one absent is translated
C11_Witness ==
    /\ pc = "returned"
    /\ format_string = YYYY \o <<"-">> \o MM \o DD
    /\ Matches(regex_result.value, <<"2", "0", "2", "1", "-", "0", "6", "1", "5">>)

\* the characters a regex engine reads as operators
MetaChars == {".", "^", "$", "*", "+", "?", "(", ")", "[", "]", "{", "}", "|", "\\"}

\* characters tried in the place of a separator
ProbeChars == {"-", ":", "T", "Z", "+", " ", "0", "x"}

\* C12: every separator, marker and offset sign of an accepted template is
\* emitted so that it matches exactly that one character: a metacharacter
\* (the sign +) is emitted with a backslash, the fragment on its own matches
\* the character and no other text, and in the regex it is no operator: the
\* instance is matched, and it is not matched with the character left out or
\* replaced.
C12_SeparatorsAreLiterals ==
    pc = "returned" =>
        LET re == regex_result.value
            inst == Instance(format_string, FillTypical)
            leaves == Leaves(parse(format_string).tree)
        IN  /\ Matches(re, inst)
            /\ \A i \in 1..Len(leaves) :
                  LET n == leaves[i]
                      c == format_string[n.end]
                      frag == visit(n, format_string)
                  IN  (n.expr_name \in SeparatorRules \cup {"offsetOperator"} /\ n.end > n.start) =>
                          /\ c \in MetaChars => frag = <<"\\", c>>
                          /\ c \notin MetaChars => frag \in {<<c>>, <<"\\", c>>}
                          /\ ~Matches(frag, <<>>)
                          /\ ~Matches(frag, <<c, c>>)
                          /\ \A d \in ProbeChars \cup {c} : Matches(frag, <<d>>) <=> d = c
                          /\ ~Matches(re, RemoveAt(inst, n.end))
                          /\ ~Matches(re, ReplaceAt(inst, n.end, "x"))

\* C12 witness: a template with the sign + and other separators is translated
C12_Witness ==
    /\ pc = "returned"
    /\ format_string = YYYY \o <<"-">> \o DDD \o <<" ">> \o hh \o <<":">> \o mm \o <<"+">> \o hh
    /\ \E k \in 1..Len(regex_result.value) - 1 :
          regex_result.value[k] = "\\" /\ regex_result.value[k + 1] = "+"


(***************************************************************************)
(* format_string_visitor on the templates of the grammar: one call on one  *)
(* template that the grammar derives                                       *)
(***************************************************************************)
AcceptedTemplates == {t \in StructuredTemplates : Derives(default_rule, t)}

InitTranslate ==
    /\ fin = <<>>
    /\ format_strings = <<>>
    /\ idx = 0
    /\ fout = <<>>
    /\ stderr = <<>>
    /\ pc = "call"
    /\ format_string \in AcceptedTemplates
    /\ regex_result = NotCalled

SpecTranslate == InitTranslate /\ [][NextVisitor]_vars

(***************************************************************************)
(* Properties of the atoms (specification SpecTranslate)                   *)
(***************************************************************************)
\* the two-digit texts of the numbers lo..hi
TwoDigits(lo, hi) ==
    {<<Digits[(k \div 10) + 1], Digits[(k % 10) + 1]>> : k \in lo..hi}

\* every text of n characters over the characters cs
RECURSIVE TextsOver(_, _)
TextsOver(cs, n) ==
    IF n = 0 THEN {<<>>} ELSE {<<c>> \o t : c \in cs, t \in TextsOver(cs, n - 1)}

\* per placeholder rule, values outside the set of its table entry
BadValues ==
    [year |-> {<<"2", "0", "x", "1">>, <<"2", "0", "2", "-">>},
     month |-> {<<"0", "0">>, <<"1", "3">>},
     dayOfMonth |-> {<<"0", "0">>, <<"3", "2">>},
     dayOfYear |-> {<<"4", "0", "0">>},
     hours |-> {<<"2", "5">>, <<"3", "0">>},
     minutes |-> {<<"6", "0">>},
     wholeSeconds |-> {<<"6", "0">>},
     fractionalSeconds |-> {<<".", "5", "x", "0">>, <<"x", "5", "0", "0">>}]

\* the texts after prefix that the regex matches, among the candidates
MatchedAfter(re, prefix, candidates) == {t \in candidates : Matches(re, prefix \o t)}

\* C13: each placeholder emits a fixed atom that matches exactly the set of
\* its table entry: YYYY the 4-digit texts, MM 01..12, DD 01..31, hh 00..24
\* (24 accepted, 25 rejected), mm and ss 00..59, .sss a dot and 3 digits; and
\* the atom is the same wherever the placeholder stands: in every accepted
\* template the instance with the largest values is matched and the instance
\* with one placeholder's value outside its set is not.
C13_PlaceholderAtoms ==
    pc = "returned" =>
        LET re == regex_result.value
            inst == Instance(format_string, FillTypical)
            leaves == Leaves(parse(format_string).tree)
            two == TextsOver(DigitSet \cup {"x"}, 2)
            short == TextsOver(DigitSet, 1) \cup TextsOver(DigitSet, 3)
        IN  /\ Matches(re, Instance(format_string, FillExtreme))
            /\ Matches(re, inst)
            /\ \A i \in 1..Len(leaves) :
                  LET n == leaves[i]
                  IN  n.expr_name \in DOMAIN BadValues =>
                          \A bad \in BadValues[n.expr_name] :
                              ~Matches(re, ReplaceSpan(inst, n.start, n.end, bad))
            /\ format_string = YYYY =>
                  /\ MatchedAfter(re, <<>>, TextsOver({"0", "1", "9", "x"}, 4))
                         = TextsOver({"0", "1", "9"}, 4)
                  /\ MatchedAfter(re, <<>>, TextsOver({"0", "9"}, 3) \cup TextsOver({"0", "9"}, 5))
                         = {}
            /\ format_string = YYYY \o MM =>
                  /\ MatchedAfter(re, FillTypical.year, two) = TwoDigits(1, 12)
                  /\ MatchedAfter(re, FillTypical.year, short) = {}
            /\ format_string = YYYY \o MM \o DD =>
                  /\ MatchedAfter(re, FillTypical.year \o FillTypical.month, two)
                         = TwoDigits(1, 31)
                  /\ MatchedAfter(re, FillTypical.year \o FillTypical.month, short) = {}
            /\ format_string = hh =>
                  /\ MatchedAfter(re, <<>>, two) = TwoDigits(0, 24)
                  /\ MatchedAfter(re, <<>>, short) = {}
            /\ format_string = hh \o mm =>
                  /\ MatchedAfter(re, FillTypical.hours, two) = TwoDigits(0, 59)
                  /\ MatchedAfter(re, FillTypical.hours, short) = {}
            /\ format_string = hh \o mm \o ss =>
                  /\ MatchedAfter(re, FillTypical.hours \o FillTypical.minutes, two)
                         = TwoDigits(0, 59)
                  /\ MatchedAfter(re, FillTypical.hours \o FillTypical.minutes, short) = {}
            /\ format_string = hh \o mm \o ss \o sss =>
                  LET before == FillTypical.hours \o FillTypical.minutes \o FillTypical.seconds
                  IN  /\ MatchedAfter(re, before, TextsOver({".", "0", "9", "x"}, 4))
                             = {<<".">> \o t : t \in TextsOver({"0", "9"}, 3)}
                      /\ MatchedAfter(re, before,
                                      {<<".">> \o t : t \in TextsOver({"0", "9"}, 2)
                                                          \cup TextsOver({"0", "9"}, 4)})
                             = {}

\* C13 witness: a template with hours in the time and in the offset is
\* translated, and the hour 24 is matched at both places
C13_Witness ==
    /\ pc = "returned"
    /\ format_string = hh \o <<":">> \o mm \o <<"+">> \o hh
    /\ Matches(regex_result.value, <<"2", "4", ":", "0", "0", "+", "2", "4">>)

\* the three-digit texts of the numbers lo..hi
ThreeDigits(lo, hi) ==
    {<<Digits[(k \div 100) + 1], Digits[((k \div 10) % 10) + 1], Digits[(k % 10) + 1]>> :
        k \in lo..hi}

\* C14: the regex of YYYY-DDD matches 2021-366 and the out-of-range 2021-399;
\* the DDD atom matches exactly the 3-digit texts 000..399 and rejects
\* 400..999, and so it does in every accepted template that has a day of year.
C14_DayOfYearOverAccepts ==
    pc = "returned" =>
        LET re == regex_result.value
            inst == Instance(format_string, FillTypical)
            leaves == Leaves(parse(format_string).tree)
            before == FillTypical.year \o <<"-">>
        IN  /\ \A i \in 1..Len(leaves) :
                  LET n == leaves[i]
                      with(day) == ReplaceSpan(inst, n.start, n.end, day)
                  IN  n.expr_name = "dayOfYear" =>
                          /\ \A day \in {<<"0", "0", "0">>, <<"3", "6", "6">>,
                                         <<"3", "6", "7">>, <<"3", "9", "9">>} :
                                Matches(re, with(day))
                          /\ \A day \in {<<"4", "0", "0">>, <<"9", "9", "9">>,
                                         <<"3", "9">>, <<"3", "9", "9", "9">>} :
                                ~Matches(re, with(day))
            /\ format_string = YYYY \o <<"-">> \o DDD =>
                  /\ Matches(re, <<"2", "0", "2", "1", "-", "3", "6", "6">>)
                  /\ Matches(re, <<"2", "0", "2", "1", "-", "3", "9", "9">>)
                  /\ MatchedAfter(re, before, ThreeDigits(0, 999)) = ThreeDigits(0, 399)
                  /\ MatchedAfter(re, before, TextsOver(DigitSet, 2)) = {}
                  /\ MatchedAfter(re, before, {<<"3", "9", "9", d>> : d \in DigitSet}) = {}

\* C14 witness: YYYY-DDD is translated and its regex matches 2021-399
C14_Witness ==
    /\ pc = "returned"
    /\ format_string = YYYY \o <<"-">> \o DDD
    /\ Matches(regex_result.value, <<"2", "0", "2", "1", "-", "3", "9", "9">>)

\* every node of the tree under node, the node itself first
RECURSIVE Nodes(_)
Nodes(node) ==
    <<node>> \o Join([k \in 1..Len(node.children) |-> Nodes(node.children[k])])

\* the ways the table writes an offset: sign and hours, then nothing, or
\* minutes, or a colon and minutes
OffsetForms ==
    {<<s>> \o hh \o m : s \in {"+", "-"}, m \in {<<>>, mm, <<":">> \o mm}}

OtherSign(s) == IF s = "+" THEN "-" ELSE "+"

\* C15: an offset in a template is a sign and hh, then optionally an optional
\* colon and mm; its fragment is the backslash-escaped sign as written, the
\* hours atom, and only when the template has offset minutes the colon if
\* present and the minutes atom; the regex matches offsets of the written
\* sign only.
C15_OffsetAsWritten ==
    pc = "returned" =>
        LET re == regex_result.value
            inst == Instance(format_string, FillTypical)
            nodes == Nodes(parse(format_string).tree)
        IN  /\ \A i \in 1..Len(nodes) :
                  LET n == nodes[i]
                      txt == NodeText(n, format_string)
                      sign == txt[1]
                      minutes_part == SubSeq(txt, 4, Len(txt))
                      colon == IF minutes_part # <<>> /\ minutes_part[1] = ":"
                               THEN <<":">> ELSE <<>>
                  IN  n.expr_name = "offset" =>
                          /\ txt \in OffsetForms
                          /\ visit(n, format_string)
                                 = <<"\\", sign>> \o visit_hours
                                       \o (IF minutes_part = <<>> THEN <<>>
                                           ELSE colon \o visit_minutes)
                          /\ inst[n.start + 1] = sign
                          /\ Matches(re, inst)
                          /\ ~Matches(re, ReplaceAt(inst, n.start + 1, OtherSign(sign)))
                          /\ ~Matches(re, RemoveAt(inst, n.start + 1))
                          /\ IF minutes_part = <<>>
                             THEN /\ ~Matches(re, ReplaceSpan(inst, n.end, n.end, FillTypical.minutes))
                                  /\ ~Matches(re, ReplaceSpan(inst, n.end, n.end,
                                                              <<":">> \o FillTypical.minutes))
                             ELSE /\ ~Matches(re, ReplaceSpan(inst, n.start + 3, n.end, <<>>))
                                  /\ ~Matches(re, ReplaceSpan(inst, n.start + 3, n.end,
                                                              (IF colon = <<>> THEN <<":">> ELSE <<>>)
                                                                  \o FillTypical.minutes))
            /\ format_string = hh =>
                  /\ \A o \in OffsetForms : format_string_visitor(hh \o o).error = ""
                  /\ \A o \in OffsetParts \ (OffsetForms \cup {<<>>}) :
                        format_string_visitor(hh \o o).error # ""

\* C15 witness: a template whose offset is written with - and with minutes
\* after a colon is translated; its regex matches the - offset
C15_Witness ==
    /\ pc = "returned"
    /\ format_string = hh \o <<":">> \o mm \o <<"-">> \o hh \o <<":">> \o mm
    /\ Matches(regex_result.value, <<"1", "4", ":", "3", "0", "-", "0", "5", ":", "0", "0">>)
    /\ ~Matches(regex_result.value, <<"1", "4", ":", "3", "0", "+", "0", "5", ":", "0", "0">>)

\* C17: for every template the grammar accepts, the regex matches the
\* instance made from the template by putting valid digits for each
\* placeholder and keeping every separator and marker as written; the
\* language of the regex is never empty.
C17_MatchesItsInstance ==
    pc = "returned" =>
        /\ \A f \in Fills : Matches(regex_result.value, Instance(format_string, f))
        /\ \E s \in {Instance(format_string, f) : f \in Fills} : Matches(regex_result.value, s)

\* C17 witness: a template with a blank for the date-time marker, no dashes
\* and a Z is translated, and its instance keeps the blank and the Z
C17_Witness ==
    /\ pc = "returned"
    /\ format_string = YYYY \o MM \o DD \o <<" ">> \o hh \o <<":">> \o mm \o <<"Z">>
    /\ Instance(format_string, FillTypical)
           = <<"2", "0", "2", "1", "0", "6", "1", "5", " ", "1", "4", ":", "3", "0", "Z">>
    /\ Matches(regex_result.value, Instance(format_string, FillTypical))

\* C18: the template YYYY-MM-DD is accepted, and its regex matches 2021-06-15
\* and rejects 2021-6-15; in no accepted template is a month or a day written
\* with a single digit matched.
C18_TwoDigitMonthAndDay ==
    /\ format_string = YYYY \o <<"-">> \o MM \o <<"-">> \o DD /\ pc # "call" =>
          /\ pc = "returned"
          /\ Matches(regex_result.value, <<"2", "0", "2", "1", "-", "0", "6", "-", "1", "5">>)
          /\ ~Matches(regex_result.value, <<"2", "0", "2", "1", "-", "6", "-", "1", "5">>)
          /\ ~Matches(regex_result.value, <<"2", "0", "2", "1", "-", "0", "6", "-", "5">>)
          /\ ~Matches(regex_result.value, <<"2", "0", "2", "1", "-", "6", "-", "5">>)
    /\ pc = "returned" =>
          LET re == regex_result.value
              inst == Instance(format_string, FillTypical)
              leaves == Leaves(parse(format_string).tree)
          IN  \A i \in 1..Len(leaves) :
                  LET n == leaves[i]
                  IN  n.expr_name \in {"month", "dayOfMonth"} =>
                          /\ Matches(re, inst)
                          /\ \A d \in {"1", "5", "6", "9"} :
                                ~Matches(re, ReplaceSpan(inst, n.start, n.end, <<d>>))

\* C18 witness: YYYY-MM-DD is translated and its regex matches 2021-06-15
C18_Witness ==
    /\ pc = "returned"
    /\ format_string = YYYY \o <<"-">> \o MM \o <<"-">> \o DD
    /\ Matches(regex_result.value, <<"2", "0", "2", "1", "-", "0", "6", "-", "1", "5">>)

Scenario19Template ==
    YYYY \o <<"-">> \o DDD \o <<"T">> \o hh \o <<":">> \o mm \o <<":">> \o ss \o sss

Scenario19Instance ==
    <<"2", "0", "2", "1", "-", "1", "6", "6", "T", "0", "8", ":", "0", "0", ":", "0", "0">>

\* fractions that are not a dot and exactly 3 digits
BadFractions ==
    {<<>>, <<".">>, <<".", "5">>, <<".", "5", "0">>, <<".", "5", "0", "0", "0">>,
     <<"5", "0", "0">>}

\* C19: the template YYYY-DDDThh:mm:ss.sss is accepted as a day-based
\* datetime whose seconds carry a fraction, and its regex matches
\* 2021-166T08:00:00.500; the fraction is a dot and exactly 3 digits, so the
\* instance with no fraction or with fewer or more than 3 fraction digits is
\* rejected, there and in every accepted template with a fraction.
C19_FractionIsDotAndThreeDigits ==
    /\ format_string = Scenario19Template /\ pc # "call" =>
          LET tree == parse(format_string).tree
              nodes == Nodes(tree)
          IN  /\ pc = "returned"
              /\ tree.children[1].expr_name = "dayBasedDateTime"
              /\ \E i \in 1..Len(nodes) :
                    /\ nodes[i].expr_name = "secondsWithFraction"
                    /\ NodeText(nodes[i], format_string) = ss \o sss
              /\ Matches(regex_result.value, Scenario19Instance \o <<".", "5", "0", "0">>)
              /\ \A bad \in BadFractions :
                    ~Matches(regex_result.value, Scenario19Instance \o bad)
    /\ pc = "returned" =>
          LET re == regex_result.value
              inst == Instance(format_string, FillTypical)
              leaves == Leaves(parse(format_string).tree)
          IN  \A i \in 1..Len(leaves) :
                  LET n == leaves[i]
                  IN  n.expr_name = "fractionalSeconds" =>
                          /\ Matches(re, inst)
                          /\ \A bad \in BadFractions :
                                ~Matches(re, ReplaceSpan(inst, n.start, n.end, bad))

\* C19 witness: the template is translated and matches 2021-166T08:00:00.500
C19_Witness ==
    /\ pc = "returned"
    /\ format_string = Scenario19Template
    /\ Matches(regex_result.value, Scenario19Instance \o <<".", "5", "0", "0">>)

(***************************************************************************)
(* Order of reading and handling (specification Spec)                      *)
(***************************************************************************)
\* the "Parsing" records of the log, in order
ParsingRecords == SelectSeq(stderr, LAMBDA r : r.message = "Parsing")

\* C20 as stated: a line is read from the input stream only after every line
\* before it has been parsed, translated and written, so at most one line
\* that is read is not yet handled.
C20_NextReadAfterWrite ==
    Len(format_strings) <= idx + 1

\* C20: the whole input is read before any line is handled; after that the
\* lines are handled strictly one at a time in input order: when a line is
\* taken up, every line before it has been parsed, translated and its output
\* written, and no later line has been touched.
C20_ReadAllThenOneAtATime ==
    /\ pc = "start" => format_strings = <<>> /\ idx = 0 /\ fout = <<>> /\ stderr = <<>>
    /\ pc # "start" =>
          /\ fin = <<>>
          /\ idx <= Len(format_strings)
          /\ Len(fout) = idx
          /\ \A k \in 1..idx :
                /\ LineResult(format_strings[k]).error = ""
                /\ fout[k] = output_line(Strip(format_strings[k]),
                                         LineResult(format_strings[k]).value)
          /\ ParsingRecords
                 = [k \in 1..Cardinality(Attempted) |->
                        LogRecord("INFO", "Parsing", line_format_string(format_strings[k]))]
          /\ pc = "raised" => LineResult(format_strings[idx + 1]).error # ""

\* C20 witness: three lines were read at once, the first is written and the
\* second and third are not yet taken up
C20_Witness ==
    /\ pc = "loop"
    /\ fin = <<>>
    /\ Len(format_strings) = 3
    /\ idx = 1
    /\ Len(fout) = 1

(***************************************************************************)
(* Termination (specification SpecLive).  main() is sequential code: as    *)
(* long as a statement is left to run, it runs.  The fairness condition is *)
(* stated on NextFromTable, which is Next with the result of               *)
(* format_string_visitor looked up in a table of the results for the input *)
(* lines instead of computed inside the step.                              *)
(***************************************************************************)
\* what format_string_visitor makes of the token of each input line
ResultTable == [line \in Lines |-> format_string_visitor(line_format_string(line))]

\* LoopBody, with the call of format_string_visitor looked up in ResultTable
LoopBodyFromTable ==
    /\ pc = "loop"
    /\ idx < Len(format_strings)
    /\ \E line \in {format_strings[idx + 1]} :
       \E stripped_line \in {Strip(line)} :
       \E fs \in {Split(stripped_line, ",")[1]} :
       \E r \in {ResultTable[line]} :
           /\ format_string' = fs
           /\ regex_result' = r
           /\ IF r.error = ""
              THEN /\ fout' = fout_write(fout, output_line(stripped_line, r.value))
                   /\ stderr' = Append(stderr, LogRecord("INFO", "Parsing", fs))
                   /\ idx' = idx + 1
                   /\ pc' = "loop"
              ELSE /\ fout' = fout
                   /\ stderr' = stderr \o <<LogRecord("INFO", "Parsing", fs),
                                            LogRecord("Traceback", r.error, fs)>>
                   /\ idx' = idx
                   /\ pc' = "raised"
    /\ UNCHANGED <<fin, format_strings>>

NextFromTable == Readlines \/ LoopBodyFromTable \/ Finish

SpecLive == Spec /\ WF_vars(NextFromTable)

RuleNames == DOMAIN grammar

\* the rules a rule names directly
References(name) == {grammar[name].members[k] : k \in 1..Len(grammar[name].members)}

\* the rules reached from the rules in names within n references
RECURSIVE ReachedWithin(_, _)
ReachedWithin(names, n) ==
    IF n = 0 THEN names
    ELSE LET more == names \cup UNION {References(r) : r \in names}
         IN  IF more = names THEN names ELSE ReachedWithin(more, n - 1)

\* the rules reached from a rule by one reference or more
Reached(name) == ReachedWithin(References(name), Cardinality(RuleNames))

\* the run is over: the loop ended or an exception left main()
Ended == pc \in {"done", "raised"}

\* C21: no rule of the grammar reaches itself through rule references (so no
\* rule is left-recursive) and every rule named is defined; every parse ends
\* in a result or in one of the two parse errors; every run of the driver
\* reaches its end, and once the input is exhausted the run finishes.  (Every
\* step of the driver is a step of NextFromTable, so the fairness condition
\* is one on the steps of the driver.)
C21_Terminates ==
    /\ \A name \in RuleNames : References(name) \subseteq RuleNames /\ name \notin Reached(name)
    /\ [](regex_result.error \in {"not called", "", "ParseError", "IncompleteParseError"})
    /\ [][NextFromTable]_vars
    /\ <>Ended
    /\ [](pc = "loop" /\ idx = Len(format_strings) => <>(pc = "done"))

\* C21 witness: an input of three lines is exhausted and the run is finished
C21_Witness ==
    /\ pc = "done"
    /\ idx = 3
    /\ Len(format_strings) = 3
    /\ stderr[Len(stderr)].message = "Finished program"

(***************************************************************************)
(* Independence of the lines (specification Spec)                          *)
(***************************************************************************)
\* the number of the line the loop handled last, 0 before the first
LastHandled == idx + (IF pc = "raised" THEN 1 ELSE 0)

\* C22: the result of a line that the driver handles (its regex or its parse
\* failure) is the result of that line taken alone, whatever lines come
\* before or after it in the batch and at whatever place it stands; handling
\* a line leaves the input lines and the output of the earlier lines as they
\* are.
C22_LinesIndependent ==
    /\ [](LastHandled >= 1 =>
             /\ regex_result = ResultTable[format_strings[LastHandled]]
             /\ format_string = line_format_string(format_strings[LastHandled]))
    /\ [](\A k \in 1..Len(fout) :
             /\ ResultTable[format_strings[k]].error = ""
             /\ fout[k] = output_line(Strip(format_strings[k]),
                                      ResultTable[format_strings[k]].value))
    /\ [][/\ pc = "loop" => format_strings' = format_strings
          /\ Len(fout') >= Len(fout)
          /\ \A k \in 1..Len(fout) : fout'[k] = fout[k]]_vars

\* C22 witness: the same line was handled first and third with another line
\* between, and has the same output line both times
C22_Witness ==
    /\ idx = 3
    /\ format_strings[1] = format_strings[3]
    /\ format_strings[2] # format_strings[1]
    /\ fout[1] = fout[3]
    /\ fout[2] # fout[1]

(***************************************************************************)
(* Properties of the translation as a tree walk (specification             *)
(* SpecTranslate)                                                          *)
(***************************************************************************)
\* v is a text: a finite sequence of characters
IsText(v) ==
    /\ DOMAIN v = 1..Len(v)
    /\ \A k \in 1..Len(v) : v[k] \in STRING /\ v[k] # ""

\* C23: every grammar rule has its visit_ method and every visit_ method its
\* rule; every node of the parse tree of an accepted template is of a rule
\* that has a method; and for every accepted template the translation
\* returns a text, at every node and for the whole tree, and raises nothing.
C23_TranslationTotal ==
    /\ VisitMethods = RuleNames
    /\ LET nodes == Nodes(parse(format_string).tree)
       IN  /\ parse(format_string).error = ""
           /\ \A i \in 1..Len(nodes) : nodes[i].expr_name \in VisitMethods
           /\ pc # "call" =>
                 /\ pc = "returned"
                 /\ regex_result.error = ""
                 /\ IsText(regex_result.value)
                 /\ regex_result.value # <<>>
                 /\ \A i \in 1..Len(nodes) : IsText(visit(nodes[i], format_string))

\* C23 witness: a template that uses a date, a marker, a time with a
\* fraction, an offset with minutes and Z is translated into a text
C23_Witness ==
    /\ pc = "returned"
    /\ format_string = YYYY \o <<"-">> \o MM \o <<"-">> \o DD \o <<"T">> \o hh \o <<":">> \o mm
                           \o <<":">> \o ss \o sss \o <<"+">> \o hh \o <<":">> \o mm \o <<"Z">>
    /\ Len(Nodes(parse(format_string).tree)) >= 25
    /\ IsText(regex_result.value)

\* the fragments of the children of a node, in child order
ChildFragments(node, text) ==
    [k \in 1..Len(node.children) |-> visit(node.children[k], text)]

\* the fragments of the terminal nodes under a node, left to right
LeafFragments(node, text) ==
    LET leaves == Leaves(node)
    IN  [k \in 1..Len(leaves) |-> visit(leaves[k], text)]

\* C24: the fragment of every non-terminal node is the concatenation of the
\* fragments of its children in child order, nothing added and nothing
\* dropped (the root adds the two anchors), so the regex of an accepted
\* template is ^, the fragments of the terminals in the left-to-right order
\* of the template, and $.
C24_BottomUpConcatenation ==
    pc = "returned" =>
        LET tree == parse(format_string).tree
            nodes == Nodes(tree)
            leaves == Leaves(tree)
        IN  /\ \A i \in 1..Len(nodes) :
                  LET n == nodes[i]
                  IN  /\ n.children # <<>> /\ n.expr_name # default_rule =>
                            visit(n, format_string) = Join(ChildFragments(n, format_string))
                      /\ n.expr_name = default_rule =>
                            /\ i = 1
                            /\ visit(n, format_string)
                                   = <<"^">> \o Join(ChildFragments(n, format_string)) \o <<"$">>
            /\ regex_result.value
                   = <<"^">> \o Join(LeafFragments(tree, format_string)) \o <<"$">>
            /\ \A i \in 1..(Len(leaves) - 1) : leaves[i].end = leaves[i + 1].start
            /\ leaves # <<>> => leaves[1].start = 0 /\ leaves[Len(leaves)].end = Len(format_string)

\* C24 witness: hh:mmZ is translated into ^, the hours atom, the colon, the
\* minutes atom, Z and $
C24_Witness ==
    /\ pc = "returned"
    /\ format_string = hh \o <<":">> \o mm \o <<"Z">>
    /\ regex_result.value
           = <<"^">> \o visit_hours \o <<":">> \o visit_minutes \o <<"Z">> \o <<"$">>

(***************************************************************************)
(* The run at a line that fails to parse (specification Spec)              *)
(***************************************************************************)
\* the numbers of the lines read whose token does not parse
FailingLines == {k \in 1..Len(format_strings) : ResultTable[format_strings[k]].error # ""}

\* the output lines of the first n lines read, in input order
OutputsOfFirst(n) ==
    [k \in 1..n |-> output_line(Strip(format_strings[k]), ResultTable[format_strings[k]].value)]

\* C25: when the template of some line fails to parse, the run ends at that
\* line: the output stream holds exactly the output lines of the lines
\* before the first failing line, in input order; nothing is written for a
\* later line, whether or not it would parse; and no step follows.
C25_RunEndsAtFirstFailure ==
    /\ [](FailingLines # {} =>
             /\ pc # "done"
             /\ idx < Min(FailingLines)
             /\ Len(fout) < Min(FailingLines)
             /\ pc = "raised" =>
                   /\ idx + 1 = Min(FailingLines)
                   /\ fout = OutputsOfFirst(idx)
                   /\ stderr[Len(stderr)].level = "Traceback")
    /\ [](pc = "raised" => FailingLines # {})
    /\ [][pc # "raised"]_vars

\* C25 witness: the second of three lines failed; the first line has its
\* output line and the third, which would parse, has none
C25_Witness ==
    /\ pc = "raised"
    /\ Len(format_strings) = 3
    /\ FailingLines = {2}
    /\ Len(fout) = 1
    /\ fout = OutputsOfFirst(1)

(***************************************************************************)
(* The shapes of a regular expression: the language of an expression       *)
(* without repetition is a finite union of shapes, a shape being a         *)
(* sequence of character sets, one per character of the matched text.      *)
(* Shapes reads the expression text as Matches does.  A repetition, which  *)
(* the visitor never emits, is followed for two rounds, enough to show     *)
(* more than one length.                                                   *)
(***************************************************************************)
\* the characters the wildcard stands for here
Alphabet == DigitSet \cup Whitespace \cup {"-", ":", "T", "Z", "+", ".", ",", "x"}

\* every shape of A followed by every shape of B
ShapeProduct(A, B) == {a \o b : a \in A, b \in B}

RECURSIVE ShapesAlt(_, _)
RECURSIVE ShapesConcat(_, _, _)
RECURSIVE ShapesAtom(_, _)

\* one atom at index i: [next: the index after the atom, shapes]
ShapesAtom(re, i) ==
    LET c == re[i]
    IN  CASE c = "(" ->
                LET r == ShapesAlt(re, i + 1)
                IN  [next |-> r.next + 1, shapes |-> r.shapes]
          [] c = "[" ->
                LET r == ReClass(re, i + 1, {})
                IN  [next |-> r.next, shapes |-> {<<r.chars>>}]
          [] c = "\\" /\ i < Len(re) ->
                [next |-> i + 2,
                 shapes |-> {<<IF re[i + 1] = "d" THEN DigitSet ELSE {re[i + 1]}>>}]
          [] c \in {"^", "$"} -> [next |-> i + 1, shapes |-> {<<>>}]
          [] c = "." -> [next |-> i + 1, shapes |-> {<<Alphabet>>}]
          [] OTHER -> [next |-> i + 1, shapes |-> {<<{c}>>}]

\* the atoms and their postfix operators up to the next "|" or ")" or the end
ShapesConcat(re, i, acc) ==
    IF i > Len(re) \/ re[i] \in {"|", ")"}
    THEN [next |-> i, shapes |-> acc]
    ELSE LET a == ShapesAtom(re, i)
             q == IF a.next <= Len(re) THEN re[a.next] ELSE ""
             twice == ShapeProduct(a.shapes, a.shapes)
         IN  CASE q = "?" ->
                    ShapesConcat(re, a.next + 1, ShapeProduct(acc, a.shapes \cup {<<>>}))
               [] q = "*" ->
                    ShapesConcat(re, a.next + 1,
                                 ShapeProduct(acc, a.shapes \cup twice \cup {<<>>}))
               [] q = "+" ->
                    ShapesConcat(re, a.next + 1, ShapeProduct(acc, a.shapes \cup twice))
               [] OTHER -> ShapesConcat(re, a.next, ShapeProduct(acc, a.shapes))

\* the alternatives from index i up to the closing ")" or the end
ShapesAlt(re, i) ==
    LET r == ShapesConcat(re, i, {<<>>})
    IN  IF r.next <= Len(re) /\ re[r.next] = "|"
        THEN LET r2 == ShapesAlt(re, r.next + 1)
             IN  [next |-> r2.next, shapes |-> r.shapes \cup r2.shapes]
        ELSE r

Shapes(re) == ShapesAlt(re, 1).shapes

\* the letters that placeholders are written with
PlaceholderLetters == {"Y", "M", "D", "h", "m", "s"}

\* one text of a shape
TextOf(shape) == [k \in 1..Len(shape) |-> CHOOSE c \in shape[k] : TRUE]

\* C26: for every accepted template, every text the regex matches has as
\* many characters as the template and has each separator, marker and sign
\* character of the template (and the dot of a fraction) at the template's
\* position; at the positions of the placeholder letters it has digits.
C26_LengthPreserved ==
    pc = "returned" =>
        LET re == regex_result.value
            shapes == Shapes(re)
            inst == Instance(format_string, FillTypical)
        IN  /\ shapes # {}
            /\ \A sh \in shapes :
                  /\ Len(sh) = Len(format_string)
                  /\ \A k \in 1..Len(sh) :
                        IF format_string[k] \in PlaceholderLetters
                        THEN sh[k] # {} /\ sh[k] \subseteq DigitSet
                        ELSE sh[k] = {format_string[k]}
            /\ \E sh \in shapes : \A k \in 1..Len(sh) : inst[k] \in sh[k]
            /\ Matches(re, TextOf(CHOOSE sh \in shapes : TRUE))
            /\ Matches(re, inst)
            /\ Len(inst) = Len(format_string)

\* C26 witness: a template of 17 characters with a dash, a blank, a colon and
\* a sign is translated; its regex has more than one shape, all 17 long
C26_Witness ==
    /\ pc = "returned"
    /\ format_string = YYYY \o <<"-">> \o DDD \o <<" ">> \o hh \o <<":">> \o mm \o <<"-">> \o hh
    /\ Cardinality(Shapes(regex_result.value)) > 1
    /\ \A sh \in Shapes(regex_result.value) : Len(sh) = 17

(***************************************************************************)
(* The empty token (specification Spec)                                    *)
(***************************************************************************)
\* the numbers of the lines read whose token is empty
EmptyTokenLines == {k \in 1..Len(format_strings) : line_format_string(format_strings[k]) = <<>>}

EmptyRegexLine == <<",", "^", "$", "\n">>

\* C27: the empty token does not parse: no alternative of validDateTime
\* matches it, so a blank line or a line whose first field is empty gets a
\* ParseError, no regex (not ^$ either) and no output line.
C27_EmptyTokenFails ==
    /\ \A k \in 1..Len(validDateTimeRule.members) :
          match_core(validDateTimeRule.members[k], <<>>, 0) = NoMatch
    /\ format_string_visitor(<<>>) = Raised("ParseError")
    /\ \A k \in EmptyTokenLines :
          /\ Len(fout) < k
          /\ LastHandled <= k
          /\ LastHandled = k =>
                /\ pc = "raised"
                /\ format_string = <<>>
                /\ regex_result = Raised("ParseError")
    /\ \A j \in 1..Len(fout) :
          /\ line_format_string(format_strings[j]) # <<>>
          /\ SubSeq(fout[j], Len(fout[j]) - 3, Len(fout[j])) # EmptyRegexLine

\* C27 witness: after a line that parsed, a line whose first field is empty
\* was handled and raised; it is not a blank line and it has no output line
C27_Witness ==
    /\ pc = "raised"
    /\ idx = 1
    /\ Len(fout) = 1
    /\ format_string = <<>>
    /\ Strip(format_strings[2]) # <<>>

(***************************************************************************)
(* The date-time marker (specification SpecTranslate)                      *)
(***************************************************************************)
Scenario28Template ==
    YYYY \o <<"-">> \o MM \o <<"-">> \o DD \o <<" ">> \o hh \o <<":">> \o mm \o <<":">> \o ss

\* the instance of the scenario with the text marker between date and time
Scenario28Instance(marker) ==
    <<"2", "0", "2", "1", "-", "0", "6", "-", "1", "5">> \o marker
        \o <<"1", "4", ":", "3", "0", ":", "0", "0">>

\* C28: the marker position of a template takes one whitespace character as
\* well as T: YYYY-MM-DD hh:mm:ss is accepted and its regex requires the
\* blank between date and time, rejecting T, no marker, another whitespace
\* character and two blanks there; the same holds of every accepted
\* template with a whitespace marker and, with a tab written, of the tab.
C28_WhitespaceMarker ==
    /\ format_string = Scenario28Template /\ pc # "call" =>
          /\ pc = "returned"
          /\ Matches(regex_result.value, Scenario28Instance(<<" ">>))
          /\ \A marker \in {<<"T">>, <<>>, <<"\t">>, <<" ", " ">>, <<"x">>} :
                ~Matches(regex_result.value, Scenario28Instance(marker))
          /\ LET tab == format_string_visitor(YYYY \o MM \o DD \o <<"\t">> \o hh)
                 date == <<"2", "0", "2", "1", "0", "6", "1", "5">>
             IN  /\ tab.error = ""
                 /\ Matches(tab.value, date \o <<"\t", "1", "4">>)
                 /\ ~Matches(tab.value, date \o <<" ", "1", "4">>)
                 /\ ~Matches(tab.value, date \o <<"T", "1", "4">>)
                 /\ ~Matches(tab.value, date \o <<"1", "4">>)
          /\ format_string_visitor(YYYY \o MM \o DD \o <<" ", " ">> \o hh).error # ""
    /\ pc = "returned" =>
          LET re == regex_result.value
              inst == Instance(format_string, FillTypical)
              leaves == Leaves(parse(format_string).tree)
          IN  \A i \in 1..Len(leaves) :
                  LET n == leaves[i]
                      c == format_string[n.end]
                  IN  n.expr_name = "T" /\ n.end > n.start /\ c \in Whitespace =>
                          /\ visit(n, format_string) = <<c>>
                          /\ inst[n.end] = c
                          /\ Matches(re, inst)
                          /\ ~Matches(re, ReplaceAt(inst, n.end, "T"))
                          /\ ~Matches(re, RemoveAt(inst, n.end))
                          /\ \A w \in Whitespace \ {c} : ~Matches(re, ReplaceAt(inst, n.end, w))

\* C28 witness: YYYY-MM-DD hh:mm:ss is translated; its regex matches the
\* instance with the blank and not the one with T
C28_Witness ==
    /\ pc = "returned"
    /\ format_string = Scenario28Template
    /\ Matches(regex_result.value, Scenario28Instance(<<" ">>))
    /\ ~Matches(regex_result.value, Scenario28Instance(<<"T">>))

(***************************************************************************)
(* The templates the grammar accepts, written out (specification           *)
(* SpecVisitor)                                                            *)
(***************************************************************************)
\* hh, hh[:]mm, hh[:]mm[:]ss and hh[:]mm[:]ss.sss
TimeShapes ==
    {hh}
    \cup {hh \o a \o mm : a \in Colons}
    \cup {hh \o a \o mm \o b \o ss \o f : a \in Colons, b \in Colons, f \in {<<>>, sss}}

\* a time shape, optionally followed by an offset
TimePortions == {t \o o : t \in TimeShapes, o \in OffsetForms \cup {<<>>}}

\* YYYY[-]MM[-]DD and YYYY[-]DDD
CompleteDates ==
    {YYYY \o a \o MM \o b \o DD : a \in Dashes, b \in Dashes}
    \cup {YYYY \o a \o DDD : a \in Dashes}

\* the dates that stand alone
DatesAlone == CompleteDates \cup {YYYY} \cup {YYYY \o a \o MM : a \in Dashes}

\* nothing, T or one whitespace character
Markers == {<<>>, <<"T">>} \cup {<<w>> : w \in Whitespace}

ExpectedTemplates ==
    DatesAlone
    \cup {t \o z : t \in TimePortions, z \in {<<>>, <<"Z">>}}
    \cup {d \o m \o t \o z : d \in CompleteDates, m \in Markers, t \in TimePortions,
                             z \in {<<>>, <<"Z">>}}

\* templates outside the shapes: seconds without minutes, a fraction without
\* whole seconds, a date-time with an incomplete date, a Z not at the end
\* after a time
NamedRejects ==
    {hh \o <<":">> \o ss, hh \o ss, hh \o <<":">> \o mm \o sss, hh \o sss,
     hh \o <<":">> \o mm \o <<":">> \o sss,
     YYYY \o <<"T">> \o hh, YYYY \o <<"-">> \o MM \o <<"T">> \o hh, YYYY \o MM \o hh,
     MM \o <<"-">> \o DD \o <<"T">> \o hh, YYYY \o <<"-">> \o DD \o <<"T">> \o hh,
     YYYY \o <<"Z">>, YYYY \o <<"-">> \o MM \o <<"-">> \o DD \o <<"Z">>,
     YYYY \o <<"-">> \o DDD \o <<"T", "Z">>, <<"Z">>, <<"Z">> \o hh, hh \o <<"Z", "Z">>,
     hh \o <<"Z", "+">> \o hh, hh \o <<"Z", ":">> \o mm, mm, ss, sss}

\* C29: a template is accepted exactly when it is a date alone, a time
\* portion (hh, hh[:]mm, hh[:]mm[:]ss or hh[:]mm[:]ss.sss, then optionally
\* an offset) with or without a final Z, or a complete date, an optional
\* marker and such a time portion with or without a final Z; seconds without
\* minutes, a fraction without whole seconds, a date-time with an incomplete
\* date and a Z anywhere but last after a time are rejected.
C29_AcceptedShapes ==
    /\ pc # "call" => (pc = "returned" <=> format_string \in ExpectedTemplates)
    /\ pc # "call" /\ format_string \in NamedRejects => pc = "raised"
    /\ format_string = hh =>
          /\ \A t \in NamedRejects : format_string_visitor(t).error # ""
          /\ \A t \in ExpectedTemplates \ Templates : parse(t).error = ""
          /\ \A t \in TimePortions : parse(t).error = "" /\ parse(t \o <<"Z">>).error = ""

\* C29 witness: hh:mm.sss, a fraction without whole seconds, is rejected,
\* while hh:mm:ss.sss is among the accepted shapes
C29_Witness ==
    /\ pc = "raised"
    /\ format_string = hh \o <<":">> \o mm \o sss
    /\ format_string \notin ExpectedTemplates
    /\ hh \o <<":">> \o mm \o <<":">> \o ss \o sss \in ExpectedTemplates

(***************************************************************************)
(* The fields of an output line (specification Spec)                       *)
(***************************************************************************)
\* the characters of a text
CharsOf(text) == {text[k] : k \in 1..Len(text)}

\* C30: the regex of an accepted template contains no comma, so every output
\* line has exactly one comma-delimited field more than its input line, and
\* the derived regex is its last field.
C30_RegexIsLastField ==
    /\ \A j \in 1..Len(fout) :
          LET out == Split(LineBody(fout[j]), ",")
              inp == Split(LineBody(format_strings[j]), ",")
              regex == ResultTable[format_strings[j]].value
          IN  /\ "," \notin CharsOf(regex)
              /\ Len(out) = Len(inp) + 1
              /\ out[Len(out)] = regex
              /\ regex # <<>>
              /\ fout[j][Len(fout[j])] = "\n"
    /\ regex_result.error = "" => "," \notin CharsOf(regex_result.value)
    /\ pc = "start" /\ fin = <<>> =>
          \A t \in AcceptedTemplates : "," \notin CharsOf(format_string_visitor(t).value)

\* C30 witness: a line of three fields has an output line of four fields
\* whose last field is the regex
C30_Witness ==
    /\ Len(fout) >= 1
    /\ Len(Split(LineBody(format_strings[1]), ",")) = 3
    /\ Len(Split(LineBody(fout[1]), ",")) = 4
    /\ Split(LineBody(fout[1]), ",")[4] = regex_result.value
    /\ idx = 1

=============================================================================
